---- MODULE Spec2Model ----
(***************************************************************************)
(* Gemini Guardian backend: the in-memory session store and the            *)
(* instruction / session state machine.                                    *)
(*                                                                         *)
(* Every route, controller and service method is an `async def` that never *)
(* awaits a real suspension point (the Gemini client call is synchronous), *)
(* so each HTTP handler runs to completion on the event loop: one action   *)
(* per handler.  Session objects are shared by reference between the store *)
(* and the handlers, so a mutation made by a service is visible in the     *)
(* store even when the handler later fails before update_session.          *)
(*                                                                         *)
(* Handlers touch one session each and sessions share no state, so the    *)
(* lifecycle is explored on one session in full detail.                    *)
(*                                                                         *)
(* Not modelled: started_at, location_data and session fields that no      *)
(* operation reads back; text contents of instructions beyond a tag.       *)
(***************************************************************************)
EXTENDS Integers, Sequences, FiniteSets, TLC

\* ------------------------------------------------------------------ bounds
MaxSessions == 1
MaxTime == 2
MaxInstr == 2
MaxAge == 1
MaxNotes == 5
MaxText == 4
MaxObs == 2
MaxStored == 2

\* -------------------------------------------------- EmergencyStatus (enum)
PENDING == "pending"
ANALYZING == "analyzing"
ACTIVE == "active"
MONITORING == "monitoring"
RESOLVED == "resolved"
ESCALATED == "escalated"
CANCELLED == "cancelled"

EmergencyStatus ==
    {PENDING, ANALYZING, ACTIVE, MONITORING, RESOLVED, ESCALATED, CANCELLED}

\* The statuses the enum's comments call terminal.
TerminalStatuses == {RESOLVED, ESCALATED, CANCELLED}

\* ------------------------------------------------------------ SeverityLevel
SeverityLOW == 1
SeverityMODERATE == 2
SeverityHIGH == 3
SeverityCRITICAL == 4
SeverityEXTREME == 5

\* ----------------------------------------------------------- Optional[...]
\* Optional[datetime] = None
NoTime == -1
\* Optional[FirstAidInstruction] = None
NoInstruction == [step_number |-> 0, instruction_text |-> "None"]
\* Optional[EmergencyAnalysis] = None
NoAnalysis ==
    [emergency_type |-> "None", severity |-> 0, confidence_score |-> 0,
     call_emergency_services |-> FALSE]
\* Optional[str] = None for notes; None and "" are both falsy and every
\* reader of user_notes / request.notes tests truthiness only.
NoNotes == <<>>

SessionIds == 1..MaxSessions
Times == 0..MaxTime

\* ------------------------------------------------------------------- state
VARIABLES
    sessions,   \* SessionService._sessions: session_id -> EmergencySession
    next_id,    \* the next fresh uuid4 (ids are never reused)
    now,        \* datetime.utcnow()
    resp,       \* the response (or HTTP error) the last handler returned
    run         \* per session: matched advance requests since the last
                \* completed analysis, -1 once another operation intervened

\* The adapter's pure functions are exercised on their own: `probe` holds
\* the one call made to one of them, [op, in, out].
VARIABLE probe

NoProbe == [op |-> "none"]

vars == <<sessions, next_id, now, resp, run, probe>>

\* ------------------------------------------------------- GeminiService
\* A key the AI's JSON object does not carry (dict.get falls to its default).
Missing == "missing"
MissingInt == -1

\* EmergencyType(value): any other string raises ValueError.
EmergencyTypes ==
    {"cardiac_arrest", "heart_attack", "choking", "drowning", "asthma_attack",
     "severe_bleeding", "fracture", "burn", "head_injury", "stroke", "seizure",
     "diabetic_emergency", "allergic_reaction", "poisoning", "unconscious",
     "shock", "unknown"}

\* The safe default analysis of analyze_emergency_frame's except branch.
FallbackAnalysis ==
    [emergency_type |-> "unknown", severity |-> SeverityHIGH,
     confidence_score |-> 0, call_emergency_services |-> TRUE]

\* analyze_emergency_frame: `ai` is what the external call does.
\*   ai.call = "raise"      the call (or base64 decode) raises
\*   ai.call = "raise_long" it raises with a message too long for
\*                          additional_context (max_length 1000), so that
\*                          building the default analysis raises as well
\*   ai.call = "ok"         ai.data is the parsed JSON object
\* Result: [raised, analysis].  confidence_score is in tenths (ge=0.0,
\* le=1.0); a value the model rejects raises inside the try as well.
analyze_emergency_frame(ai) ==
    IF ai.call = "raise_long"
    THEN [raised |-> TRUE, analysis |-> NoAnalysis]
    ELSE IF ai.call = "raise"
    THEN [raised |-> FALSE, analysis |-> FallbackAnalysis]
    ELSE LET d == ai.data
             ty == IF d.emergency_type = Missing THEN "unknown"
                   ELSE d.emergency_type
             sv == IF d.severity = MissingInt THEN SeverityHIGH ELSE d.severity
             cf == IF d.confidence_score = MissingInt THEN 5
                   ELSE d.confidence_score
         IN  IF \/ ty \notin EmergencyTypes
                \/ sv \notin SeverityLOW..SeverityEXTREME
                \/ cf \notin 0..10
             THEN [raised |-> FALSE, analysis |-> FallbackAnalysis]
             ELSE [raised |-> FALSE,
                   analysis |-> [emergency_type |-> ty, severity |-> sv,
                                 confidence_score |-> cf,
                                 call_emergency_services |-> TRUE]]

\* _get_default_instructions
CardiacArrestDefaults ==
    << [step_number |-> 1, instruction_text |-> "Call 911 immediately"],
       [step_number |-> 2, instruction_text |-> "Check for responsiveness"],
       [step_number |-> 3, instruction_text |-> "Begin chest compressions"] >>

ChokingDefaults ==
    << [step_number |-> 1, instruction_text |-> "Ask if they can speak"],
       [step_number |-> 2, instruction_text |-> "Perform abdominal thrusts"] >>

GenericDefaults ==
    << [step_number |-> 1, instruction_text |-> "Call 911 immediately"],
       [step_number |-> 2, instruction_text |-> "Keep the person calm and still"] >>

_get_default_instructions(emergency_type) ==
    IF emergency_type = "cardiac_arrest" THEN CardiacArrestDefaults
    ELSE IF emergency_type = "choking" THEN ChokingDefaults
    ELSE GenericDefaults

\* the step_number keys of k instruction objects that carry none
Unnumbered(k) == [i \in 1..k |-> MissingInt]

\* generate_first_aid_instructions: `gen` is what the external call does.
\*   gen.call = "raise"  the call raises: the built-in defaults
\*   gen.call = "ok"     the parsed JSON array has gen.n objects;
\*                       gen.step_numbers[i] is the step_number key of the
\*                       i-th object (MissingInt: no such key, so that
\*                       inst_data.get("step_number", i) gives the position)
\* A step_number below 1 fails FirstAidInstruction's ge=1 inside the try.
generate_first_aid_instructions(emergency_type, gen) ==
    IF gen.call = "raise"
    THEN _get_default_instructions(emergency_type)
    ELSE IF \E i \in 1..gen.n :
                gen.step_numbers[i] # MissingInt /\ gen.step_numbers[i] < 1
    THEN _get_default_instructions(emergency_type)
    ELSE [i \in 1..gen.n |->
            [step_number |-> IF gen.step_numbers[i] = MissingInt THEN i
                             ELSE gen.step_numbers[i],
             instruction_text |-> "Step"]]

\* What the external capability may answer.
AnalysisCalls ==
    {[call |-> "raise", data |-> [emergency_type |-> Missing, severity |-> MissingInt,
                       confidence_score |-> MissingInt]],
     [call |-> "raise_long", data |-> [emergency_type |-> Missing, severity |-> MissingInt,
                       confidence_score |-> MissingInt]],
     [call |-> "ok", data |-> [emergency_type |-> "cardiac_arrest", severity |-> 5,
                       confidence_score |-> MissingInt]],
     [call |-> "ok", data |-> [emergency_type |-> Missing, severity |-> MissingInt,
                       confidence_score |-> MissingInt]],
     [call |-> "ok", data |-> [emergency_type |-> "bogus", severity |-> 4,
                       confidence_score |-> MissingInt]],
     [call |-> "ok", data |-> [emergency_type |-> "choking", severity |-> 9,
                       confidence_score |-> MissingInt]]}

InstructionCalls ==
    {[call |-> "raise", n |-> 0, step_numbers |-> <<>>]}
        \cup {[call |-> "ok", n |-> k, step_numbers |-> Unnumbered(k)] :
                  k \in 0..MaxInstr}
        \cup {[call |-> "ok", n |-> 1, step_numbers |-> <<2>>]}

\* ------------------------------------------------- response normalizer
\* A response text is a sequence of tokens:
\*   "w"   prose without braces, brackets or backticks
\*   "FO"  the opening fence ```json        "FC"  a bare fence ```
\*   "{" "}" "[" "]"  JSON punctuation      "kv"  one "key": scalar member
Tokens == {"w", "FO", "FC", "{", "}", "[", "]", "kv"}

RECURSIVE SeqsUpTo(_, _)
SeqsUpTo(S, n) ==
    IF n = 0 THEN {<<>>}
    ELSE LET shorter == SeqsUpTo(S, n - 1)
         IN  shorter \cup {Append(q, x) : q \in {r \in shorter : Len(r) = n - 1},
                                           x \in S}

\* response.text values
ResponseTexts == SeqsUpTo(Tokens, MaxText)

\* json.loads raising json.JSONDecodeError
JSONDecodeError == [ok |-> FALSE, end |-> 0, kind |-> "error", n |-> 0, items |-> <<>>]

\* json.loads, one value starting at token i.  A dict is {kv*}, a list is
\* [value*]; the result names the kind of the value, its size and the kinds
\* of a list's elements.
RECURSIVE ParseValue(_, _)
RECURSIVE ParseItems(_, _, _)
RECURSIVE SkipMembers(_, _)
SkipMembers(toks, i) ==
    IF i <= Len(toks) /\ toks[i] = "kv" THEN SkipMembers(toks, i + 1) ELSE i

ParseValue(toks, i) ==
    IF i > Len(toks) THEN JSONDecodeError
    ELSE IF toks[i] = "{"
    THEN LET j == SkipMembers(toks, i + 1)
         IN  IF j <= Len(toks) /\ toks[j] = "}"
             THEN [ok |-> TRUE, end |-> j + 1, kind |-> "dict", n |-> j - i - 1,
                   items |-> <<>>]
             ELSE JSONDecodeError
    ELSE IF toks[i] = "["
    THEN ParseItems(toks, i + 1, <<>>)
    ELSE JSONDecodeError

ParseItems(toks, i, acc) ==
    IF i > Len(toks) THEN JSONDecodeError
    ELSE IF toks[i] = "]"
    THEN [ok |-> TRUE, end |-> i + 1, kind |-> "list", n |-> Len(acc), items |-> acc]
    ELSE LET v == ParseValue(toks, i)
         IN  IF v.ok THEN ParseItems(toks, v.end, Append(acc, v.kind))
             ELSE JSONDecodeError

\* json.loads(json_str): the whole string is one value
json_loads(toks) ==
    LET v == ParseValue(toks, 1)
    IN  IF v.ok /\ v.end = Len(toks) + 1 THEN v ELSE JSONDecodeError

\* positions of a token of set S in text, at or after position from
Positions(text, S, from) == {i \in from..Len(text) : text[i] \in S}

Min(S) == CHOOSE x \in S : \A y \in S : x <= y
Max(S) == CHOOSE x \in S : \A y \in S : x >= y

NoMatch == [found |-> FALSE, str |-> <<>>]

\* re.search(r'```json\s*(.*?)\s*```', text, re.DOTALL).group(1): from the
\* first ```json to the nearest following ``` (the backticks that open a
\* later ```json close the block as well)
FencedBlock(text) ==
    LET opens == Positions(text, {"FO"}, 1)
    IN  IF opens = {} THEN NoMatch
        ELSE LET a == Min(opens)
                 closes == Positions(text, {"FC", "FO"}, a + 1)
             IN  IF closes = {} THEN NoMatch
                 ELSE [found |-> TRUE, str |-> SubSeq(text, a + 1, Min(closes) - 1)]

\* re.search(open + '.*' + close, text, re.DOTALL).group(0): greedy, from
\* the first opening token to the last closing token after it
GreedySpan(text, open, close) ==
    LET opens == Positions(text, {open}, 1)
    IN  IF opens = {} THEN NoMatch
        ELSE LET a == Min(opens)
                 closes == Positions(text, {close}, a + 1)
             IN  IF closes = {} THEN NoMatch
                 ELSE [found |-> TRUE, str |-> SubSeq(text, a, Max(closes))]

EmptyDict == [kind |-> "dict", n |-> 0, items |-> <<>>]
EmptyList == [kind |-> "list", n |-> 0, items |-> <<>>]

Payload(v) == [kind |-> v.kind, n |-> v.n, items |-> v.items]

\* _parse_analysis_response: [raised, data].  data.keys() of a payload that
\* is not a dict raises AttributeError, which the except clause does not
\* catch.
_parse_analysis_response(text) ==
    LET fenced == FencedBlock(text)
        raw == GreedySpan(text, "{", "}")
        m == IF fenced.found THEN fenced ELSE raw
    IN  IF ~m.found THEN [raised |-> FALSE, data |-> EmptyDict]
        ELSE LET v == json_loads(m.str)
             IN  IF ~v.ok THEN [raised |-> FALSE, data |-> EmptyDict]
                 ELSE IF v.kind # "dict" THEN [raised |-> TRUE, data |-> EmptyDict]
                 ELSE [raised |-> FALSE, data |-> Payload(v)]

\* _parse_instructions_response: [raised, data]
_parse_instructions_response(text) ==
    LET fenced == FencedBlock(text)
        raw == GreedySpan(text, "[", "]")
        m == IF fenced.found THEN fenced ELSE raw
    IN  IF ~m.found THEN [raised |-> FALSE, data |-> EmptyList]
        ELSE LET v == json_loads(m.str)
             IN  IF ~v.ok THEN [raised |-> FALSE, data |-> EmptyList]
                 ELSE IF v.kind # "list" THEN [raised |-> FALSE, data |-> EmptyList]
                 ELSE [raised |-> FALSE, data |-> Payload(v)]

\* generate_first_aid_instructions from the call's outcome to its `gen`:
\* a raising call, or a list element that is not an object (inst_data.get
\* raises AttributeError), takes the except branch; otherwise the parsed
\* list has Len objects.
GenOfResponse(call, text) ==
    LET p == _parse_instructions_response(text)
    IN  IF call = "raise" \/ \E i \in 1..Len(p.data.items) : p.data.items[i] # "dict"
        THEN [call |-> "raise", n |-> 0, step_numbers |-> <<>>]
        ELSE [call |-> "ok", n |-> p.data.n, step_numbers |-> Unnumbered(p.data.n)]

\* ------------------------------------------------------------ text helpers
\* str.lower() on the letters that occur in the modelled texts.
LowerChar(c) ==
    CASE c = "C" -> "c" [] c = "A" -> "a" [] c = "N" -> "n"
      [] c = "E" -> "e" [] c = "L" -> "l" [] c = "D" -> "d"
      [] c = "S" -> "s" [] c = "V" -> "v" [] c = "R" -> "r"
      [] OTHER -> c

Lower(str) == [i \in 1..Len(str) |-> LowerChar(str[i])]

\* `sub in str`
Contains(sub, str) ==
    \E k \in 0..(Len(str) - Len(sub)) :
        \A i \in 1..Len(sub) : str[k + i] = sub[i]

CancelWord == <<"c", "a", "n", "c", "e", "l">>

\* EndSessionRequest.reason values (min_length 1)
Reasons ==
    { <<"D", "o", "n", "e">>,
      <<"C", "a", "n", "c", "e", "l">>,
      <<"c", "a", "n", "c", "e", "l", "l", "e", "d">>,
      <<"c", "a", "n">> }

\* Notes are sequences of words; "ws" is a run of whitespace.
IsSpace(w) == w = "ws"

RECURSIVE LStrip(_)
LStrip(str) ==
    IF str # <<>> /\ IsSpace(Head(str)) THEN LStrip(Tail(str)) ELSE str

RECURSIVE RStrip(_)
RStrip(str) ==
    IF str # <<>> /\ IsSpace(str[Len(str)])
    THEN RStrip(SubSeq(str, 1, Len(str) - 1)) ELSE str

\* str.strip()
Strip(str) == RStrip(LStrip(str))

\* StartSessionRequest.user_notes / EndSessionRequest.notes values
NoteTexts == { NoNotes, <<"note">> }

\* ------------------------------------------------------- EmergencySession
\* a record created already Active at step 1
NewSessionStarted(user_notes, t) ==
    [status |-> ACTIVE, updated_at |-> t, ended_at |-> NoTime,
     analysis |-> NoAnalysis, instructions |-> <<>>, current_step |-> 1,
     user_notes |-> user_notes]

\* EmergencySession(user_notes=..., status=PENDING) with the field defaults
NewSession(user_notes, t) ==
    [status |-> PENDING, updated_at |-> t, ended_at |-> NoTime,
     analysis |-> NoAnalysis, instructions |-> <<>>, current_step |-> 0,
     user_notes |-> user_notes]

\* advance_step that also advances from the last step
EmergencySession_advance_step_uptolast(session, t) ==
    IF session.current_step <= Len(session.instructions)
    THEN [session |-> [session EXCEPT !.current_step = @ + 1,
                                      !.updated_at = t],
          success |-> TRUE]
    ELSE [session |-> session, success |-> FALSE]

\* EmergencySession.advance_step: the session as left by the call and the
\* returned flag
EmergencySession_advance_step(session, t) ==
    IF session.current_step < Len(session.instructions)
    THEN [session |-> [session EXCEPT !.current_step = @ + 1,
                                      !.updated_at = t],
          success |-> TRUE]
    ELSE [session |-> session, success |-> FALSE]

\* EmergencySession.get_current_instruction
EmergencySession_get_current_instruction(session) ==
    IF 0 < session.current_step /\ session.current_step <= Len(session.instructions)
    THEN session.instructions[session.current_step]
    ELSE NoInstruction

\* ------------------------------------------------------- EmergencyService
\* EmergencyService.calculate_severity_score: type_severity.get(type, 3)
type_severity(emergency_type) ==
    CASE emergency_type \in {"cardiac_arrest", "stroke", "drowning"} -> 5
      [] emergency_type \in {"severe_bleeding", "choking", "head_injury",
                             "heart_attack", "poisoning", "allergic_reaction",
                             "unconscious", "shock"} -> 4
      [] emergency_type \in {"seizure", "asthma_attack", "diabetic_emergency",
                             "burn", "unknown"} -> 3
      [] emergency_type = "fracture" -> 2
      [] OTHER -> 3

critical_keywords ==
    << <<"n", "o", "t", " ", "b", "r", "e", "a", "t", "h", "i", "n", "g">>,
       <<"n", "o", " ", "p", "u", "l", "s", "e">>,
       <<"u", "n", "c", "o", "n", "s", "c", "i", "o", "u", "s">>,
       <<"u", "n", "r", "e", "s", "p", "o", "n", "s", "i", "v", "e">>,
       <<"s", "e", "v", "e", "r", "e">>,
       <<"m", "a", "s", "s", "i", "v", "e">>,
       <<"a", "r", "t", "e", "r", "i", "a", "l">>,
       <<"p", "r", "o", "f", "u", "s", "e">> >>

\* observation strings, and the observation lists of an analysis
ObservationTexts ==
    { <<"N", "o", " ", "p", "u", "l", "s", "e">>,
      <<"S", "E", "V", "E", "R", "E">>,
      <<"c", "a", "l", "m">>,
      <<"n", "o", "t">>,
      <<"b", "r", "e", "a", "t", "h", "i", "n", "g">>,
      <<"p", "u", "l", "s", "e">> }

Observations == SeqsUpTo(ObservationTexts, MaxObs)

\* " ".join(observations)
RECURSIVE Join(_)
Join(strs) ==
    IF strs = <<>> THEN <<>>
    ELSE IF Len(strs) = 1 THEN strs[1]
    ELSE strs[1] \o <<" ">> \o Join(Tail(strs))

\* every keyword found escalates once more (no break)
RECURSIVE ScanKeywordsCumulative(_, _, _)
ScanKeywordsCumulative(severity, keywords, obs_text) ==
    IF keywords = <<>> THEN severity
    ELSE IF Contains(Head(keywords), obs_text)
    THEN ScanKeywordsCumulative(IF severity + 1 < 5 THEN severity + 1 ELSE 5,
                                Tail(keywords), obs_text)
    ELSE ScanKeywordsCumulative(severity, Tail(keywords), obs_text)

\* the for loop over critical_keywords: the first keyword found escalates
\* once and breaks
RECURSIVE ScanKeywords(_, _, _)
ScanKeywords(severity, keywords, obs_text) ==
    IF keywords = <<>> THEN severity
    ELSE IF Contains(Head(keywords), obs_text)
    THEN IF severity + 1 < 5 THEN severity + 1 ELSE 5
    ELSE ScanKeywords(severity, Tail(keywords), obs_text)

calculate_severity_score(emergency_type, observations) ==
    ScanKeywords(type_severity(emergency_type), critical_keywords,
                 Lower(Join(observations)))

\* get_current_instruction with the lower bound test written `<=` for `<`
get_current_instruction_skipfirst(session) ==
    IF Len(session.instructions) = 0 THEN NoInstruction
    ELSE IF session.current_step <= 1
            \/ session.current_step > Len(session.instructions)
    THEN NoInstruction
    ELSE session.instructions[session.current_step]

\* EmergencyService.get_current_instruction
get_current_instruction(session) ==
    IF Len(session.instructions) = 0 THEN NoInstruction
    ELSE IF session.current_step < 1
            \/ session.current_step > Len(session.instructions)
    THEN NoInstruction
    ELSE session.instructions[session.current_step]

\* advance_instruction with the last-step test written `>` for `>=`
advance_instruction_offbyone(session, t) ==
    IF Len(session.instructions) = 0
    THEN [session |-> session, success |-> FALSE, instruction |-> NoInstruction]
    ELSE IF session.current_step > Len(session.instructions)
    THEN [session |-> [session EXCEPT !.status = RESOLVED,
                                      !.ended_at = t,
                                      !.updated_at = t],
          success |-> FALSE, instruction |-> NoInstruction]
    ELSE LET advanced == [session EXCEPT !.current_step = @ + 1,
                                         !.updated_at = t]
         IN  [session |-> advanced, success |-> TRUE,
              instruction |-> get_current_instruction(advanced)]

\* advance_instruction resolving at the last step without stamping ended_at
advance_instruction_noended(session, t) ==
    IF Len(session.instructions) = 0
    THEN [session |-> session, success |-> FALSE, instruction |-> NoInstruction]
    ELSE IF session.current_step >= Len(session.instructions)
    THEN [session |-> [session EXCEPT !.status = RESOLVED,
                                      !.updated_at = t],
          success |-> FALSE, instruction |-> NoInstruction]
    ELSE LET advanced == [session EXCEPT !.current_step = @ + 1,
                                         !.updated_at = t]
         IN  [session |-> advanced, success |-> TRUE,
              instruction |-> get_current_instruction(advanced)]

\* advance_instruction reading the instruction before moving the pointer
advance_instruction_stale(session, t) ==
    IF Len(session.instructions) = 0
    THEN [session |-> session, success |-> FALSE, instruction |-> NoInstruction]
    ELSE IF session.current_step >= Len(session.instructions)
    THEN [session |-> [session EXCEPT !.status = RESOLVED,
                                      !.ended_at = t,
                                      !.updated_at = t],
          success |-> FALSE, instruction |-> NoInstruction]
    ELSE LET advanced == [session EXCEPT !.current_step = @ + 1,
                                         !.updated_at = t]
         IN  [session |-> advanced, success |-> TRUE,
              instruction |-> get_current_instruction(session)]

\* EmergencyService.advance_instruction: the session as left by the call,
\* and the returned (success, next_instruction)
advance_instruction(session, t) ==
    IF Len(session.instructions) = 0
    THEN [session |-> session, success |-> FALSE, instruction |-> NoInstruction]
    ELSE IF session.current_step >= Len(session.instructions)
    THEN [session |-> [session EXCEPT !.status = RESOLVED,
                                      !.ended_at = t,
                                      !.updated_at = t],
          success |-> FALSE, instruction |-> NoInstruction]
    ELSE LET advanced == [session EXCEPT !.current_step = @ + 1,
                                         !.updated_at = t]
         IN  [session |-> advanced, success |-> TRUE,
              instruction |-> get_current_instruction(advanced)]

\* analyze_frame that keeps the step pointer of a session already under way
analyze_frame_keepstep(session, ai, gen, t) ==
    LET res == analyze_emergency_frame(ai)
        instructions ==
            generate_first_aid_instructions(res.analysis.emergency_type, gen)
    IN  [raised |-> res.raised,
         session |-> IF res.raised
                     THEN [session EXCEPT !.status = ACTIVE, !.updated_at = t]
                     ELSE [session EXCEPT
                              !.analysis = res.analysis,
                              !.instructions = instructions,
                              !.status = ACTIVE,
                              !.current_step =
                                  IF @ > 0 THEN @
                                  ELSE IF Len(instructions) > 0 THEN 1 ELSE 0,
                              !.updated_at = t]]

\* analyze_frame whose except path re-raises without resetting the status
analyze_frame_stuck(session, ai, gen, t) ==
    LET analyzing == [session EXCEPT !.status = ANALYZING, !.updated_at = t]
        res == analyze_emergency_frame(ai)
    IN  IF res.raised
        THEN [raised |-> TRUE, session |-> analyzing]
        ELSE LET instructions ==
                     generate_first_aid_instructions(
                         res.analysis.emergency_type, gen)
             IN  [raised |-> FALSE,
                  session |-> [analyzing EXCEPT
                      !.analysis = res.analysis,
                      !.instructions = instructions,
                      !.status = ACTIVE,
                      !.current_step = IF Len(instructions) > 0 THEN 1 ELSE 0,
                      !.updated_at = t]]

\* EmergencyService.analyze_frame: the session as left by the call and
\* whether the call raised
analyze_frame(session, ai, gen, t) ==
    LET analyzing == [session EXCEPT !.status = ANALYZING, !.updated_at = t]
        res == analyze_emergency_frame(ai)
    IN  IF res.raised
        THEN [raised |-> TRUE,
              session |-> [analyzing EXCEPT !.status = ACTIVE,
                                            !.updated_at = t]]
        ELSE LET instructions ==
                     generate_first_aid_instructions(
                         res.analysis.emergency_type, gen)
             IN  [raised |-> FALSE,
                  session |-> [analyzing EXCEPT
                      !.analysis = res.analysis,
                      !.instructions = instructions,
                      !.status = ACTIVE,
                      !.current_step = IF Len(instructions) > 0 THEN 1 ELSE 0,
                      !.updated_at = t]]

\* ----------------------------------------------------- EmergencyController
\* "Verify step matches" in EmergencyController.advance_step
StepMatchesAlways(session, claimed) == TRUE

StepMatches(session, claimed) == session.current_step = claimed

\* --------------------------------------------------------- SessionService
\* the "already ended" test without RESOLVED
AlreadyEndedCancelledOnly(session) == session.status \in {CANCELLED}

\* the status test of SessionService.end_session ("already ended")
AlreadyEnded(session) == session.status \in {RESOLVED, CANCELLED}

\* the end status with the reason tested before emergency_services_called
EndStatusCancelFirst(called, reason) ==
    IF Contains(CancelWord, Lower(reason)) THEN CANCELLED
    ELSE IF called THEN ESCALATED
    ELSE RESOLVED

\* the status chosen by SessionService.end_session
EndStatus(called, reason) ==
    IF called THEN ESCALATED
    ELSE IF Contains(CancelWord, Lower(reason)) THEN CANCELLED
    ELSE RESOLVED

\* end_session that replaces the notes by the resolution note
end_session_overwrite(session, reason, notes, called, t) ==
    LET ended == [session EXCEPT !.status = EndStatus(called, reason),
                                 !.ended_at = t,
                                 !.updated_at = t]
    IN  IF notes # NoNotes
        THEN [ended EXCEPT !.user_notes = Strip(<<"Resolution: ">> \o notes)]
        ELSE ended

\* end_session that sets the final status without stamping ended_at
end_session_noended(session, reason, notes, called, t) ==
    LET ended == [session EXCEPT !.status = EndStatus(called, reason),
                                 !.updated_at = t]
    IN  IF notes # NoNotes
        THEN [ended EXCEPT !.user_notes =
                 Strip(session.user_notes \o <<"ws", "Resolution: ">> \o notes)]
        ELSE ended

\* SessionService.end_session on a session it accepts
end_session(session, reason, notes, called, t) ==
    LET ended == [session EXCEPT !.status = EndStatus(called, reason),
                                 !.ended_at = t,
                                 !.updated_at = t]
    IN  IF notes # NoNotes
        THEN [ended EXCEPT !.user_notes =
                 Strip(session.user_notes \o <<"ws", "Resolution: ">> \o notes)]
        ELSE ended

\* SessionService.update_session (the session is in the store)
update_session(session, t) == [session EXCEPT !.updated_at = t]

\* the age test alone, whatever the status
ExpiredAnyStatus(session, cutoff) ==
    (IF session.ended_at # NoTime THEN session.ended_at
     ELSE session.updated_at) < cutoff

\* the test of SessionService.cleanup_expired_sessions
Expired(session, cutoff) ==
    /\ session.status \in {RESOLVED, CANCELLED, ESCALATED}
    /\ (IF session.ended_at # NoTime THEN session.ended_at
        ELSE session.updated_at) < cutoff

\* ------------------------------------------------------------- responses
\* HTTP status and what the body (or the HTTPException detail) says.
Response(op, sid, code, detail, instruction, count) ==
    [op |-> op, sid |-> sid, code |-> code, detail |-> detail,
     instruction |-> instruction, count |-> count]

NoResponse == Response("none", 0, 0, "none", NoInstruction, 0)

\* AdvanceStepRequest.current_step (ge=1)
ClaimedSteps == 1..(MaxInstr + 2)

\* ------------------------------------------------------------------ Init
\* SessionService.__init__: the empty store
EmptyStore ==
    /\ sessions = [i \in {} |-> NewSession(NoNotes, 0)]
    /\ next_id = 1
    /\ now = 0
    /\ resp = NoResponse
    /\ run = [i \in {} |-> 0]

Init ==
    /\ EmptyStore
    /\ probe = NoProbe

\* --------------------------------------------------------------- actions
\* POST /session/start: SessionController.create_session
create_session(user_notes) ==
    /\ sessions' = [i \in DOMAIN sessions \cup {next_id} |->
                      IF i = next_id THEN NewSession(user_notes, now)
                      ELSE sessions[i]]
    /\ run' = [i \in DOMAIN sessions \cup {next_id} |->
                 IF i = next_id THEN -1 ELSE run[i]]
    /\ next_id' = next_id + 1
    /\ resp' = Response("create", next_id, 200, "created", NoInstruction, 0)
    /\ UNCHANGED now

\* the store of this specification holds at most MaxSessions sessions
CreateSession(user_notes) ==
    /\ next_id <= MaxSessions
    /\ create_session(user_notes)
    /\ UNCHANGED probe

\* POST /emergency/analyze: EmergencyController.analyze_frame
controller_analyze_frame(sid, ai, gen) ==
    /\ IF sid \notin DOMAIN sessions
       THEN /\ resp' = Response("analyze", sid, 404, "not_found", NoInstruction, 0)
            /\ UNCHANGED <<sessions, run>>
       ELSE LET r == analyze_frame(sessions[sid], ai, gen, now)
            IN  IF r.raised
                THEN /\ sessions' = [sessions EXCEPT ![sid] = r.session]
                     /\ run' = [run EXCEPT ![sid] = -1]
                     /\ resp' = Response("analyze", sid, 500, "analysis_failed",
                                         NoInstruction, 0)
                ELSE LET stored == update_session(r.session, now)
                     IN  /\ sessions' = [sessions EXCEPT ![sid] = stored]
                         /\ run' = [run EXCEPT ![sid] = 0]
                         /\ resp' = Response("analyze", sid, 200, "analysis_complete",
                                             get_current_instruction(stored), 0)
    /\ UNCHANGED <<next_id, now>>

AnalyzeFrame(sid, ai, gen) ==
    /\ controller_analyze_frame(sid, ai, gen)
    /\ UNCHANGED probe

\* POST /emergency/advance: EmergencyController.advance_step
advance_step(sid, claimed) ==
    /\ IF sid \notin DOMAIN sessions
       THEN /\ resp' = Response("advance", sid, 404, "not_found", NoInstruction, 0)
            /\ UNCHANGED <<sessions, run>>
       ELSE IF ~StepMatches(sessions[sid], claimed)
       THEN /\ resp' = Response("advance", sid, 400, "step_mismatch", NoInstruction, 0)
            /\ UNCHANGED <<sessions, run>>
       ELSE LET r == advance_instruction(sessions[sid], now)
                stored == update_session(r.session, now)
                cap == Len(stored.instructions) + 1
            IN  /\ sessions' = [sessions EXCEPT ![sid] = stored]
                /\ run' = [run EXCEPT ![sid] =
                             IF @ < 0 \/ @ >= cap THEN @ ELSE @ + 1]
                /\ resp' = IF ~r.success
                           THEN Response("advance", sid, 200, "completed",
                                         NoInstruction, 0)
                           ELSE Response("advance", sid, 200, "advanced",
                                         r.instruction, 0)
    /\ UNCHANGED <<next_id, now>>

AdvanceStep(sid, claimed) ==
    /\ advance_step(sid, claimed)
    /\ UNCHANGED probe

\* POST /session/{id}/end: SessionController.end_session
\* (the id in the URL and the id in the body are the same id)
EndSession(sid, reason, notes, called) ==
    /\ IF sid \notin DOMAIN sessions
       THEN /\ resp' = Response("end", sid, 400, "not_found", NoInstruction, 0)
            /\ UNCHANGED <<sessions, run>>
       ELSE IF AlreadyEnded(sessions[sid])
       THEN /\ resp' = Response("end", sid, 400, "already_ended", NoInstruction, 0)
            /\ UNCHANGED <<sessions, run>>
       ELSE LET ended == end_session(sessions[sid], reason, notes, called, now)
            IN  /\ Len(ended.user_notes) <= MaxNotes
                /\ sessions' = [sessions EXCEPT ![sid] = ended]
                /\ run' = [run EXCEPT ![sid] = -1]
                /\ resp' = Response("end", sid, 200, "ended", NoInstruction, 0)
    /\ UNCHANGED <<next_id, now, probe>>

\* GET /session/{id}: SessionController.get_session
GetSession(sid) ==
    /\ resp' = IF sid \notin DOMAIN sessions
               THEN Response("get", sid, 404, "not_found", NoInstruction, 0)
               ELSE Response("get", sid, 200, "retrieved", NoInstruction, 0)
    /\ UNCHANGED <<sessions, run, next_id, now, probe>>

\* GET /emergency/{id}/instruction: EmergencyController.get_current_instruction
GetCurrentInstruction(sid) ==
    /\ resp' = IF sid \notin DOMAIN sessions
               THEN Response("instruction", sid, 404, "not_found", NoInstruction, 0)
               ELSE IF sessions[sid].instructions = <<>>
               THEN Response("instruction", sid, 200, "no_instructions",
                             NoInstruction, 0)
               ELSE LET current_instruction == get_current_instruction(sessions[sid])
                    IN  IF current_instruction = NoInstruction
                        THEN Response("instruction", sid, 200, "no_current",
                                      NoInstruction, 0)
                        ELSE Response("instruction", sid, 200, "retrieved",
                                      current_instruction, 0)
    /\ UNCHANGED <<sessions, run, next_id, now, probe>>

\* SessionService.cleanup_expired_sessions(max_age_hours)
CleanupExpired(max_age) ==
    LET cutoff == now - max_age
        to_remove == {i \in DOMAIN sessions : Expired(sessions[i], cutoff)}
    IN  /\ sessions' = [i \in DOMAIN sessions \ to_remove |-> sessions[i]]
        /\ run' = [i \in DOMAIN sessions \ to_remove |-> run[i]]
        /\ resp' = Response("sweep", 0, 200, "swept", NoInstruction,
                            Cardinality(to_remove))
        /\ UNCHANGED <<next_id, now, probe>>

\* the clock advances between requests
Tick ==
    /\ now < MaxTime
    /\ now' = now + 1
    /\ UNCHANGED <<sessions, next_id, resp, run, probe>>

Next ==
    \/ \E n \in NoteTexts : CreateSession(n)
    \/ \E sid \in SessionIds, ai \in AnalysisCalls, gen \in InstructionCalls :
           AnalyzeFrame(sid, ai, gen)
    \/ \E sid \in SessionIds, c \in ClaimedSteps : AdvanceStep(sid, c)
    \/ \E sid \in SessionIds, reason \in Reasons, n \in NoteTexts,
          called \in BOOLEAN : EndSession(sid, reason, n, called)
    \/ \E a \in 0..MaxAge : CleanupExpired(a)
    \/ \E sid \in SessionIds : GetSession(sid)
    \/ \E sid \in SessionIds : GetCurrentInstruction(sid)
    \/ Tick

Spec == Init /\ [][Next]_vars

\* ------------------------------------- the adapter's functions on their own
\* What the external capability may answer to analyze_emergency_frame,
\* every value of the two mapped keys included.
AnalysisAnswers ==
    [call : {"raise", "raise_long", "ok"},
     data : [emergency_type : EmergencyTypes \cup {Missing, "bogus"},
             severity : (0..6) \cup {MissingInt},
             confidence_score : {MissingInt, 9, 15}]]

\* emergency types instructions are generated for: the two with curated
\* defaults and two without
GenerateTypes == {"cardiac_arrest", "choking", "fracture", "unknown"}

stateUnchanged == UNCHANGED <<sessions, next_id, now, resp, run>>

ProbeAnalyze(ai) ==
    /\ probe = NoProbe
    /\ probe' = [op |-> "analyze_emergency_frame", in |-> ai,
                 out |-> analyze_emergency_frame(ai)]
    /\ stateUnchanged

\* EmergencyService.analyze_frame on a fresh session; the instruction call
\* takes the defaults
ProbeAnalyzeFrame(ai) ==
    /\ probe = NoProbe
    /\ probe' = [op |-> "analyze_frame", in |-> ai,
                 out |-> analyze_frame(NewSession(NoNotes, 0), ai,
                                       [call |-> "raise", n |-> 0,
                                        step_numbers |-> <<>>], 0)]
    /\ stateUnchanged

ProbeGenerate(emergency_type, call, text) ==
    /\ probe = NoProbe
    /\ probe' = [op |-> "generate_first_aid_instructions",
                 in |-> [emergency_type |-> emergency_type, call |-> call,
                         text |-> text],
                 out |-> generate_first_aid_instructions(
                             emergency_type, GenOfResponse(call, text))]
    /\ stateUnchanged

\* step_number keys the AI may send with up to two instruction objects
NumberedCalls ==
    {[call |-> "ok", n |-> Len(sn), step_numbers |-> sn] :
        sn \in SeqsUpTo({MissingInt, 0, 1, 2}, 2)}

ProbeGenerateNumbered(emergency_type, gen) ==
    /\ probe = NoProbe
    /\ probe' = [op |-> "generate_numbered",
                 in |-> [emergency_type |-> emergency_type, gen |-> gen],
                 out |-> generate_first_aid_instructions(emergency_type, gen)]
    /\ stateUnchanged

ProbeParseAnalysis(text) ==
    /\ probe = NoProbe
    /\ probe' = [op |-> "_parse_analysis_response", in |-> text,
                 out |-> _parse_analysis_response(text)]
    /\ stateUnchanged

ProbeParseInstructions(text) ==
    /\ probe = NoProbe
    /\ probe' = [op |-> "_parse_instructions_response", in |-> text,
                 out |-> _parse_instructions_response(text)]
    /\ stateUnchanged

ProbeSeverity(emergency_type, observations) ==
    /\ probe = NoProbe
    /\ probe' = [op |-> "calculate_severity_score",
                 in |-> [emergency_type |-> emergency_type,
                         observations |-> observations],
                 out |-> calculate_severity_score(emergency_type, observations)]
    /\ stateUnchanged

\* Session states the handlers leave behind: a fresh session, or one that
\* analyze_frame filled (step 1 of its list, or step 0 of an empty list) and
\* that was advanced and ended since.
SessionStates ==
    {NewSession(NoNotes, 0)} \cup
    {[NewSession(NoNotes, 0) EXCEPT
          !.analysis = [FallbackAnalysis EXCEPT !.emergency_type = ty],
          !.instructions = generate_first_aid_instructions(ty, gen),
          !.current_step = k,
          !.status = st,
          !.updated_at = u,
          !.ended_at = IF st \in TerminalStatuses THEN u ELSE NoTime] :
       ty \in GenerateTypes, gen \in InstructionCalls, k \in 0..(MaxInstr + 1),
       st \in {ACTIVE, RESOLVED, ESCALATED}, u \in 0..1}

WellFormed(session) ==
    IF Len(session.instructions) = 0
    THEN session.current_step = 0
    ELSE session.current_step \in 1..Len(session.instructions)

\* the same session state handed to the model's own methods and to the
\* service's
ProbeAdvancePair(session, t) ==
    /\ probe = NoProbe
    /\ LET m == EmergencySession_advance_step(session, t)
           s == advance_instruction(session, t)
       IN  probe' = [op |-> "advance_pair",
                     in |-> [session |-> session, t |-> t],
                     out |-> [model |-> m,
                              service |-> s,
                              model_before |->
                                  EmergencySession_get_current_instruction(session),
                              service_before |-> get_current_instruction(session),
                              model_after |->
                                  EmergencySession_get_current_instruction(m.session),
                              service_after |->
                                  get_current_instruction(s.session)]]
    /\ stateUnchanged

PureNext ==
    \/ /\ probe = NoProbe
       /\ \E ai \in AnalysisAnswers : ProbeAnalyze(ai)
    \/ /\ probe = NoProbe
       /\ \E ai \in AnalysisAnswers : ProbeAnalyzeFrame(ai)
    \/ /\ probe = NoProbe
       /\ \E ty \in GenerateTypes, call \in {"raise", "ok"}, text \in ResponseTexts :
              ProbeGenerate(ty, call, text)
    \/ /\ probe = NoProbe
       /\ \E ty \in GenerateTypes, gen \in NumberedCalls :
              ProbeGenerateNumbered(ty, gen)
    \/ /\ probe = NoProbe
       /\ \E session \in {x \in SessionStates : WellFormed(x)}, t \in 1..2 :
              ProbeAdvancePair(session, t)
    \/ /\ probe = NoProbe
       /\ \E text \in ResponseTexts : ProbeParseAnalysis(text)
    \/ /\ probe = NoProbe
       /\ \E text \in ResponseTexts : ProbeParseInstructions(text)
    \/ /\ probe = NoProbe
       /\ \E ty \in EmergencyTypes, obs \in Observations : ProbeSeverity(ty, obs)

PureSpec == Init /\ [][PureNext]_vars

\* ------------------------------------ two advance requests at once
\* Two POST /emergency/advance requests for the same session carrying the
\* same current_step are in flight together.  A handler never suspends
\* between reading the session and storing it, so the interleavings are
\* the two orders in which the requests are served.
Requests == {1, 2}

RaceIssue(sid, claimed) ==
    /\ probe = NoProbe
    /\ sid \in DOMAIN sessions
    /\ probe' = [op |-> "race", sid |-> sid, claimed |-> claimed,
                 start |-> sessions[sid].current_step,
                 pending |-> Requests,
                 results |-> [k \in Requests |-> "pending"]]
    /\ stateUnchanged

RaceServe(k) ==
    /\ probe.op = "race"
    /\ k \in probe.pending
    /\ advance_step(probe.sid, probe.claimed)
    /\ probe' = [probe EXCEPT !.pending = @ \ {k},
                              !.results[k] = resp'.detail]

RaceNext ==
    \/ probe = NoProbe /\ Next
    \/ \E sid \in SessionIds, c \in ClaimedSteps : RaceIssue(sid, c)
    \/ \E k \in Requests : RaceServe(k)

RaceSpec == Init /\ [][RaceNext]_vars

\* ------------------------------------------- the store with several sessions
\* SessionService._sessions holding up to MaxStored sessions at once.  The
\* requests are those that create, fill, advance, end and sweep sessions;
\* every analysis takes the adapter's fallbacks.
StoredIds == 1..MaxStored

StoreAnalysisCalls == {ai \in AnalysisCalls : ai.call = "raise"}

StoreInstructionCalls == {gen \in InstructionCalls : gen.call = "raise"}

StoreReasons == {r \in Reasons : Len(r) \in {4, 6}}

StoreCreate(user_notes) ==
    /\ next_id <= MaxStored
    /\ create_session(user_notes)
    /\ UNCHANGED probe

StoreNext ==
    \/ StoreCreate(NoNotes)
    \/ \E sid \in StoredIds, ai \in StoreAnalysisCalls,
          gen \in StoreInstructionCalls : AnalyzeFrame(sid, ai, gen)
    \/ \E sid \in StoredIds, c \in ClaimedSteps : AdvanceStep(sid, c)
    \/ \E sid \in StoredIds, reason \in StoreReasons, called \in BOOLEAN :
           EndSession(sid, reason, NoNotes, called)
    \/ \E a \in 0..MaxAge : CleanupExpired(a)
    \/ Tick

StoreSpec == Init /\ [][StoreNext]_vars

\* ------------------------------------------- the external call in flight
\* One event loop serves every request.  generate_content is a synchronous
\* call made inside the async handler, with no timeout set on the client or
\* around the call: from the moment analyze_frame has set ANALYZING until
\* the call returns or raises, the loop runs nothing else.  The external
\* service may answer, fail, or never answer.
\*   probe.inflight  the session whose frame is with the external service
\*                   (0: the loop is free)
\*   probe.queued    sessions with a GET /session/{id} request accepted by
\*                   the server and waiting for the loop
NoFlight == 0

IdleLoop == [op |-> "loop", inflight |-> NoFlight, queued |-> {}]

LoopInit ==
    /\ EmptyStore
    /\ probe = IdleLoop

LoopCreate ==
    /\ probe.inflight = NoFlight
    /\ next_id <= MaxStored
    /\ create_session(NoNotes)
    /\ UNCHANGED probe

\* analyze_frame up to the external call: status ANALYZING, updated_at
BeginAnalyze(sid) ==
    /\ probe.inflight = NoFlight
    /\ sid \in DOMAIN sessions
    /\ sessions' = [sessions EXCEPT ![sid].status = ANALYZING,
                                    ![sid].updated_at = now]
    /\ probe' = [probe EXCEPT !.inflight = sid]
    /\ UNCHANGED <<next_id, now, resp, run>>

\* the external calls return or raise: the rest of the handler runs
ExternalReturns(ai, gen) ==
    /\ probe.inflight # NoFlight
    /\ controller_analyze_frame(probe.inflight, ai, gen)
    /\ probe' = [probe EXCEPT !.inflight = NoFlight]

\* a request for a session arrives at the server
Arrive(sid) ==
    /\ sid \notin probe.queued
    /\ probe' = [probe EXCEPT !.queued = @ \cup {sid}]
    /\ stateUnchanged

\* the loop, when free, runs the handler of a waiting request
ServeQueued(sid) ==
    /\ probe.inflight = NoFlight
    /\ sid \in probe.queued
    /\ resp' = IF sid \notin DOMAIN sessions
               THEN Response("get", sid, 404, "not_found", NoInstruction, 0)
               ELSE Response("get", sid, 200, "retrieved", NoInstruction, 0)
    /\ probe' = [probe EXCEPT !.queued = @ \ {sid}]
    /\ UNCHANGED <<sessions, run, next_id, now>>

LoopNext ==
    \/ LoopCreate
    \/ \E sid \in StoredIds : BeginAnalyze(sid)
    \/ \E ai \in AnalysisCalls, gen \in InstructionCalls : ExternalReturns(ai, gen)
    \/ \E sid \in StoredIds : Arrive(sid)
    \/ \E sid \in StoredIds : ServeQueued(sid)

\* The loop runs a ready handler whenever it is free; nothing in the
\* program makes the external service answer.
LoopSpec ==
    /\ LoopInit
    /\ [][LoopNext]_vars
    /\ WF_vars(\E sid \in StoredIds : ServeQueued(sid))

\* ------------------------------------------------ requests keep coming
\* The server keeps serving requests: some handler runs as long as one can
\* change the state.
LifecycleSpec ==
    /\ Init
    /\ [][Next]_vars
    /\ WF_vars(Next)

\* ------------------------------------------------------------- typing
TypeOK ==
    /\ DOMAIN sessions \subseteq SessionIds
    /\ DOMAIN run = DOMAIN sessions
    /\ next_id \in 1..(MaxSessions + 1)
    /\ now \in Times
    /\ \A i \in DOMAIN sessions :
        /\ sessions[i].status \in EmergencyStatus
        /\ sessions[i].updated_at \in Times
        /\ sessions[i].ended_at \in Times \cup {NoTime}
        /\ sessions[i].current_step \in Nat
        /\ run[i] \in -1..(Len(sessions[i].instructions) + 1)

\* ================================================================ claims
\* the request AdvanceStep(sid, c) carries the recorded step of a stored session
MatchedAdvance(sid, c) ==
    /\ sid \in DOMAIN sessions
    /\ c = sessions[sid].current_step
    /\ AdvanceStep(sid, c)

\* C1: every stored session has 0 <= current_step <= len(instructions), in
\* every reachable state.
C1_StepWithinInstructions ==
    \A i \in DOMAIN sessions :
        /\ 0 <= sessions[i].current_step
        /\ sessions[i].current_step <= Len(sessions[i].instructions)

\* an advance has just moved a session onto its last instruction
C1_Witness ==
    /\ resp.op = "advance" /\ resp.detail = "advanced"
    /\ resp.sid \in DOMAIN sessions
    /\ sessions[resp.sid].current_step = Len(sessions[resp.sid].instructions)

\* C2: advancing a session that stands on its last instruction
\* (current_step = len(instructions) > 0) keeps current_step, sets status to
\* Resolved, stamps ended_at and returns the completion signal (false, none).
C2_AdvanceAtLastStepResolves ==
    [][\A sid \in SessionIds, c \in ClaimedSteps :
        ( /\ MatchedAdvance(sid, c)
          /\ Len(sessions[sid].instructions) > 0
          /\ sessions[sid].current_step = Len(sessions[sid].instructions) )
        => /\ sessions'[sid].current_step = sessions[sid].current_step
           /\ sessions'[sid].status = RESOLVED
           /\ sessions'[sid].ended_at = now
           /\ resp'.code = 200 /\ resp'.detail = "completed"
           /\ resp'.instruction = NoInstruction]_vars

\* an advance at the last step has resolved an Active session
C2_Witness ==
    /\ resp.op = "advance" /\ resp.detail = "completed"
    /\ resp.sid \in DOMAIN sessions
    /\ sessions[resp.sid].status = RESOLVED
    /\ sessions[resp.sid].ended_at # NoTime
    /\ sessions[resp.sid].current_step = Len(sessions[resp.sid].instructions)
    /\ sessions[resp.sid].current_step > 1

\* C3: advancing a session with current_step < len(instructions) adds
\* exactly 1 to current_step, returns (true, the instruction at the new
\* position) and leaves status, ended_at, instructions and analysis alone.
C3_AdvanceMovesOneStep ==
    [][\A sid \in SessionIds, c \in ClaimedSteps :
        ( /\ MatchedAdvance(sid, c)
          /\ Len(sessions[sid].instructions) > 0
          /\ sessions[sid].current_step < Len(sessions[sid].instructions) )
        => /\ sessions'[sid].current_step = sessions[sid].current_step + 1
           /\ resp'.code = 200 /\ resp'.detail = "advanced"
           /\ resp'.instruction =
                  sessions[sid].instructions[sessions[sid].current_step + 1]
           /\ sessions'[sid].status = sessions[sid].status
           /\ sessions'[sid].ended_at = sessions[sid].ended_at
           /\ sessions'[sid].instructions = sessions[sid].instructions
           /\ sessions'[sid].analysis = sessions[sid].analysis]_vars

\* an advance has returned the third of three instructions
C3_Witness ==
    /\ resp.op = "advance" /\ resp.detail = "advanced"
    /\ resp.sid \in DOMAIN sessions
    /\ sessions[resp.sid].current_step = 3
    /\ resp.instruction = sessions[resp.sid].instructions[3]

\* C4: once advance_step has resolved a session, a further advance request
\* carrying the recorded step is rejected as a state conflict and sets
\* neither status nor ended_at again.
C4_ResolvedOnlyOnce ==
    [][\A sid \in SessionIds, c \in ClaimedSteps :
        ( /\ MatchedAdvance(sid, c)
          /\ sessions[sid].status = RESOLVED
          /\ run[sid] >= Len(sessions[sid].instructions) )
        => /\ resp'.code = 400
           /\ sessions'[sid].status = sessions[sid].status
           /\ sessions'[sid].ended_at = sessions[sid].ended_at]_vars

\* C5: with N >= 1 instructions and only matching advance requests since the
\* analysis, the session is Resolved exactly when N or more requests were
\* made, and the N-th request returns the completion signal, not an error.
C5_ResolvedAfterExactlyN ==
    \A i \in DOMAIN sessions :
        (run[i] >= 0 /\ Len(sessions[i].instructions) >= 1)
        => /\ (sessions[i].status = RESOLVED)
                  <=> (run[i] >= Len(sessions[i].instructions))
           /\ ( /\ run[i] = Len(sessions[i].instructions)
                /\ resp.op = "advance" /\ resp.sid = i
                /\ resp.detail # "step_mismatch" )
              => (resp.code = 200 /\ resp.detail = "completed")

\* three advance requests have resolved a session of three instructions
C5_Witness ==
    /\ resp.op = "advance" /\ resp.detail = "completed"
    /\ resp.sid \in DOMAIN sessions
    /\ Len(sessions[resp.sid].instructions) = 3
    /\ run[resp.sid] = 3
    /\ sessions[resp.sid].status = RESOLVED

\* C6: an advance request whose claimed step differs from the recorded
\* current_step gets the step-mismatch error and leaves current_step,
\* status and ended_at as they were.
C6_MismatchRejected ==
    [][\A sid \in SessionIds, c \in ClaimedSteps :
        ( /\ sid \in DOMAIN sessions
          /\ c # sessions[sid].current_step
          /\ AdvanceStep(sid, c) )
        => /\ resp'.code = 400 /\ resp'.detail = "step_mismatch"
           /\ sessions'[sid].current_step = sessions[sid].current_step
           /\ sessions'[sid].status = sessions[sid].status
           /\ sessions'[sid].ended_at = sessions[sid].ended_at]_vars

\* a stale request was rejected on a session that could have advanced
C6_Witness ==
    /\ resp.op = "advance" /\ resp.detail = "step_mismatch"
    /\ resp.sid \in DOMAIN sessions
    /\ sessions[resp.sid].status = ACTIVE
    /\ sessions[resp.sid].current_step >= 1
    /\ sessions[resp.sid].current_step < Len(sessions[resp.sid].instructions)

\* an end-session request for a stored session
EndRequest(sid) ==
    /\ sid \in DOMAIN sessions
    /\ \E reason \in Reasons, n \in NoteTexts, called \in BOOLEAN :
           EndSession(sid, reason, n, called)

\* C7: end_session fails for a session in any terminal status (Resolved,
\* Escalated or Cancelled) and leaves its status unchanged.
C7_EndRejectsTerminal ==
    [][\A sid \in SessionIds :
        (EndRequest(sid) /\ sessions[sid].status \in TerminalStatuses)
        => /\ resp'.code # 200
           /\ sessions'[sid].status = sessions[sid].status]_vars

\* C8: end_session on a Resolved session fails with the state-conflict
\* error and changes none of ended_at, status and user_notes.
C8_EndRejectsResolved ==
    [][\A sid \in SessionIds :
        (EndRequest(sid) /\ sessions[sid].status = RESOLVED)
        => /\ resp'.code = 400 /\ resp'.detail = "already_ended"
           /\ sessions'[sid].ended_at = sessions[sid].ended_at
           /\ sessions'[sid].status = sessions[sid].status
           /\ sessions'[sid].user_notes = sessions[sid].user_notes]_vars

\* an end request was rejected on a Resolved session
C8_Witness ==
    /\ resp.op = "end" /\ resp.detail = "already_ended"
    /\ resp.sid \in DOMAIN sessions
    /\ sessions[resp.sid].status = RESOLVED
    /\ sessions[resp.sid].ended_at # NoTime
    /\ sessions[resp.sid].ended_at < now

\* the modelled reasons that carry the cancellation indicator
CancellingReasons ==
    { <<"C", "a", "n", "c", "e", "l">>,
      <<"c", "a", "n", "c", "e", "l", "l", "e", "d">> }

\* C9: end_session on a non-terminal session sets Escalated when
\* emergency_services_called, else Cancelled when the reason carries the
\* cancellation indicator, else Resolved; ended_at and updated_at are stamped.
C9_EndStatusByReason ==
    [][\A sid \in SessionIds, reason \in Reasons, n \in NoteTexts,
          called \in BOOLEAN :
        ( /\ sid \in DOMAIN sessions
          /\ sessions[sid].status \notin TerminalStatuses
          /\ EndSession(sid, reason, n, called) )
        => /\ sessions'[sid].status =
                  (IF called THEN ESCALATED
                   ELSE IF reason \in CancellingReasons THEN CANCELLED
                   ELSE RESOLVED)
           /\ sessions'[sid].ended_at = now
           /\ sessions'[sid].updated_at = now
           /\ resp'.code = 200]_vars

\* an Active session was ended as Cancelled
C9_Witness ==
    /\ resp.op = "end" /\ resp.detail = "ended"
    /\ resp.sid \in DOMAIN sessions
    /\ sessions[resp.sid].status = CANCELLED
    /\ sessions[resp.sid].analysis # NoAnalysis
    /\ sessions[resp.sid].ended_at = sessions[resp.sid].updated_at

\* C10: terminal statuses are absorbing: once a session is Resolved,
\* Escalated or Cancelled no later operation changes its status.
C10_TerminalAbsorbing ==
    [][\A sid \in DOMAIN sessions :
        (sessions[sid].status \in TerminalStatuses /\ sid \in DOMAIN sessions')
        => sessions'[sid].status = sessions[sid].status]_vars

\* C11: when the external AI call raises during frame analysis,
\* analyze_emergency_frame does not propagate the error: it returns an
\* analysis with emergency_type unknown, severity 4, confidence_score 0.0
\* and call_emergency_services true.
C11_FallbackOnRaise ==
    (probe.op = "analyze_emergency_frame" /\ probe.in.call \in {"raise", "raise_long"})
        => /\ ~probe.out.raised
           /\ probe.out.analysis.emergency_type = "unknown"
           /\ probe.out.analysis.severity = 4
           /\ probe.out.analysis.confidence_score = 0
           /\ probe.out.analysis.call_emergency_services

\* C12: generate_first_aid_instructions returns the built-in instruction
\* set (the curated default of the emergency type, else the generic two
\* steps) whenever the external call raises or the AI result is empty or
\* unparseable; the sequence it returns is never empty.
C12_DefaultsOnFailure ==
    probe.op = "generate_first_aid_instructions"
        => /\ Len(probe.out) > 0
           /\ (\/ probe.in.call = "raise"
               \/ _parse_instructions_response(probe.in.text).data.n = 0)
                  => probe.out = _get_default_instructions(probe.in.emergency_type)

\* C13: every analyze_frame that completes successfully on a session, the
\* first one or a repeat, replaces analysis and instructions by the new
\* results, sets status Active, and sets current_step to 1 if the new
\* instruction list is non-empty and to 0 if it is empty.
C13_AnalyzeReplaces ==
    [][\A sid \in SessionIds, ai \in AnalysisCalls, gen \in InstructionCalls :
          (resp'.op = "analyze" /\ resp'.code = 200 /\ AnalyzeFrame(sid, ai, gen))
              => LET analysis == analyze_emergency_frame(ai).analysis
                     instructions ==
                         generate_first_aid_instructions(
                             analysis.emergency_type, gen)
                 IN  /\ sessions'[sid].analysis = analysis
                     /\ sessions'[sid].instructions = instructions
                     /\ sessions'[sid].status = ACTIVE
                     /\ sessions'[sid].current_step =
                            IF instructions # <<>> THEN 1 ELSE 0]_vars

\* a repeated analysis (the session had been ended before) brought the
\* session back to step 1 of a fresh three-step list
C13_Witness ==
    /\ resp.op = "analyze" /\ resp.code = 200
    /\ resp.sid \in DOMAIN sessions
    /\ sessions[resp.sid].ended_at # NoTime
    /\ sessions[resp.sid].status = ACTIVE
    /\ sessions[resp.sid].current_step = 1
    /\ Len(sessions[resp.sid].instructions) = 3

\* C14: of two advance requests for the same session that carry the same
\* claimed step, at most one advances the step pointer: current_step grows
\* by at most 1 and the other request is rejected as a step mismatch.
C14_NoDoubleAdvance ==
    (probe.op = "race" /\ probe.pending = {})
        => /\ sessions[probe.sid].current_step - probe.start <= 1
           /\ Cardinality({k \in Requests : probe.results[k] = "advanced"}) <= 1
           /\ \E k \in Requests : probe.results[k] = "step_mismatch"

\* C15: a request of any boundary operation (get session, submit frame,
\* advance step, get current instruction, end session) that names a session
\* id unknown to the store is answered with the not-found error (404), and
\* a state conflict (step mismatch, already ended) is never answered with
\* the error condition of not-found.
C15_NotFoundDistinct ==
    /\ resp.detail = "not_found" => resp.code = 404
    /\ resp.detail \in {"step_mismatch", "already_ended"} => resp.code # 404

\* C19: retrieving the current instruction changes no field of the session
\* or the store, and returns instructions[current_step - 1] (counting from
\* 0) exactly when 1 <= current_step <= len(instructions), none otherwise.
C19_GetInstructionPureRead ==
    [][\A sid \in SessionIds :
          GetCurrentInstruction(sid)
              => /\ sessions' = sessions
                 /\ next_id' = next_id
                 /\ sid \in DOMAIN sessions
                        => resp'.instruction =
                             IF /\ 1 <= sessions[sid].current_step
                                /\ sessions[sid].current_step
                                       <= Len(sessions[sid].instructions)
                             THEN sessions[sid].instructions[
                                      sessions[sid].current_step]
                             ELSE NoInstruction]_vars

\* the first instruction of a session standing at step 1 was returned
C19_Witness ==
    /\ resp.op = "instruction" /\ resp.code = 200
    /\ resp.sid \in DOMAIN sessions
    /\ sessions[resp.sid].current_step = 1
    /\ resp.instruction = sessions[resp.sid].instructions[1]
    /\ resp.instruction # NoInstruction

\* C16: cleanup_expired_sessions(max_age) removes only sessions that are in
\* a terminal status and whose end time (ended_at, or updated_at when
\* ended_at is unset) is older than the cutoff; sessions in Pending,
\* Analyzing, Active or Monitoring are never removed whatever their age;
\* the count returned is the number of sessions removed.
C16_SweepRemovesOnlyExpired ==
    [][\A a \in 0..MaxAge :
          CleanupExpired(a)
              => LET removed == DOMAIN sessions \ DOMAIN sessions'
                     end_time(i) == IF sessions[i].ended_at # NoTime
                                    THEN sessions[i].ended_at
                                    ELSE sessions[i].updated_at
                 IN  /\ DOMAIN sessions' \subseteq DOMAIN sessions
                     /\ \A i \in removed :
                            /\ sessions[i].status \in TerminalStatuses
                            /\ end_time(i) < now - a
                     /\ \A i \in DOMAIN sessions :
                            sessions[i].status \in
                                {PENDING, ANALYZING, ACTIVE, MONITORING}
                                => i \in DOMAIN sessions'
                     /\ \A i \in DOMAIN sessions' : sessions'[i] = sessions[i]
                     /\ resp'.count = Cardinality(removed)]_vars

\* a sweep removed one ended session and kept a Pending one that is older
\* than the cutoff
C16_Witness ==
    /\ resp.op = "sweep" /\ resp.count = 1
    /\ next_id = 3
    /\ DOMAIN sessions = {1}
    /\ sessions[1].status = PENDING
    /\ sessions[1].updated_at = 0
    /\ now = MaxTime

\* C20: create inserts exactly one new session record under an id not
\* previously in the store, with status Pending, current_step 0, no
\* instructions, no analysis and no ended_at, and leaves every session
\* already stored unchanged.
C20_CreateInsertsOne ==
    [][\A n \in NoteTexts :
          create_session(n)
              => \E id \in DOMAIN sessions' \ DOMAIN sessions :
                    /\ DOMAIN sessions' = DOMAIN sessions \cup {id}
                    /\ id >= next_id
                    /\ sessions'[id].status = PENDING
                    /\ sessions'[id].current_step = 0
                    /\ sessions'[id].instructions = <<>>
                    /\ sessions'[id].analysis = NoAnalysis
                    /\ sessions'[id].ended_at = NoTime
                    /\ \A i \in DOMAIN sessions : sessions'[i] = sessions[i]]_vars

\* a second session was created beside one that is already Active
C20_Witness ==
    /\ resp.op = "create" /\ resp.sid = 2
    /\ DOMAIN sessions = {1, 2}
    /\ sessions[1].status = ACTIVE
    /\ sessions[1].current_step = 1
    /\ sessions[2].status = PENDING

\* C17: the response normalizer never raises, whatever the input text: a
\* fenced JSON block is parsed if present, otherwise the first bare JSON
\* object/array, otherwise the result is empty; a parse failure or a
\* payload of an unexpected shape yields the empty result, not an exception.
C17_NormalizerNeverRaises ==
    probe.op \in {"_parse_analysis_response", "_parse_instructions_response"}
        => LET wanted == IF probe.op = "_parse_analysis_response"
                         THEN "dict" ELSE "list"
               empty == IF wanted = "dict" THEN EmptyDict ELSE EmptyList
               fenced == FencedBlock(probe.in)
               parsed == json_loads(fenced.str)
           IN  /\ ~probe.out.raised
               /\ (fenced.found /\ parsed.ok /\ parsed.kind = wanted)
                      => probe.out.data = Payload(parsed)
               /\ (fenced.found /\ (~parsed.ok \/ parsed.kind # wanted))
                      => probe.out.data = empty

\* C18: for every emergency type and observation list the severity
\* heuristic returns a value in 1..5, equal to the type's base score when no
\* critical keyword occurs in the (joined, lowercased) observations and to
\* min(5, base + 1) when one or more occur: a single escalation, not one
\* per keyword.  cardiac_arrest with "no pulse" gives 5, fracture with no
\* observations gives 2.
C18_SeverityHeuristic ==
    probe.op = "calculate_severity_score"
        => LET base == type_severity(probe.in.emergency_type)
               text == Lower(Join(probe.in.observations))
               critical == \E i \in 1..Len(critical_keywords) :
                               Contains(critical_keywords[i], text)
           IN  /\ probe.out \in 1..5
               /\ ~critical => probe.out = base
               /\ critical => probe.out = (IF base + 1 > 5 THEN 5 ELSE base + 1)
               /\ (/\ probe.in.emergency_type = "cardiac_arrest"
                   /\ probe.in.observations = << <<"N", "o", " ", "p", "u", "l", "s", "e">> >>)
                      => probe.out = 5
               /\ (probe.in.emergency_type = "fracture" /\ probe.in.observations = <<>>)
                      => probe.out = 2

\* fracture (base 2) with two observations that each hold a critical
\* keyword was scored 3: one escalation for two keywords
C18_Witness ==
    /\ probe.op = "calculate_severity_score"
    /\ probe.in.emergency_type = "fracture"
    /\ Len(probe.in.observations) = 2
    /\ Contains(<<"n", "o", " ", "p", "u", "l", "s", "e">>,
                Lower(probe.in.observations[1]))
    /\ Contains(<<"s", "e", "v", "e", "r", "e">>,
                Lower(probe.in.observations[2]))
    /\ probe.out = 3

\* C21: user_notes is append-only at session end: after a successful
\* end_session with resolution notes the session's prior user_notes is still
\* there as a prefix and the resolution note follows it; end_session without
\* notes leaves user_notes unchanged.
C21_NotesAppendOnly ==
    [][\A sid \in SessionIds, reason \in Reasons, n \in NoteTexts,
          called \in BOOLEAN :
          (resp'.op = "end" /\ resp'.code = 200
                /\ EndSession(sid, reason, n, called))
              => LET before == sessions[sid].user_notes
                     after == sessions'[sid].user_notes
                 IN  IF n = NoNotes THEN after = before
                     ELSE /\ Len(after) >= Len(before) + Len(n)
                          /\ SubSeq(after, 1, Len(before)) = before
                          /\ SubSeq(after, Len(after) - Len(n) + 1, Len(after)) = n
                          /\ after[Len(after) - Len(n)] = "Resolution: "]_vars

\* a session created with notes was ended with a resolution note
C21_Witness ==
    /\ resp.op = "end" /\ resp.code = 200
    /\ resp.sid \in DOMAIN sessions
    /\ sessions[resp.sid].user_notes = <<"note", "ws", "Resolution: ", "note">>

\* C22: in every reachable state a session has ended_at set only if its
\* status is terminal (Resolved, Escalated or Cancelled): no session in
\* Pending, Analyzing, Active or Monitoring carries an ended_at.
C22_EndedAtOnlyIfTerminal ==
    \A i \in DOMAIN sessions :
        sessions[i].ended_at # NoTime => sessions[i].status \in TerminalStatuses

\* C23: the field mapping of analyze_emergency_frame defaults each field on
\* its own: an unrecognized or missing emergency_type maps to unknown, a
\* missing or out-of-range severity maps to 3 (or the provided severity
\* clamped into 1..5), and the other fields parsed from the same AI answer
\* (here confidence_score) are kept in the analysis returned.
C23_FieldwiseDefaults ==
    (probe.op = "analyze_emergency_frame" /\ probe.in.call = "ok")
        => LET d == probe.in.data
               clamped == IF d.severity < 1 THEN 1
                          ELSE IF d.severity > 5 THEN 5 ELSE d.severity
           IN  /\ ~probe.out.raised
               /\ probe.out.analysis.emergency_type =
                      (IF d.emergency_type \in EmergencyTypes
                       THEN d.emergency_type ELSE "unknown")
               /\ probe.out.analysis.severity \in
                      (IF d.severity = MissingInt THEN {3}
                       ELSE IF d.severity \in 1..5 THEN {d.severity}
                       ELSE {3, clamped})
               /\ d.confidence_score \in 0..10
                      => probe.out.analysis.confidence_score = d.confidence_score

\* C24: when the AI answer to a submitted frame omits severity, the severity
\* of the analysis stored in the session is the severity heuristic's score
\* for the analysis's emergency type and observations (the modelled answers
\* carry no observations); the heuristic is not applied when the AI
\* supplies a severity.
C24_HeuristicWhenSeverityOmitted ==
    (/\ probe.op = "analyze_frame"
     /\ probe.in.call = "ok"
     /\ ~probe.out.raised
     /\ probe.in.data.emergency_type \in EmergencyTypes \cup {Missing}
     /\ probe.in.data.confidence_score \in {MissingInt} \cup 0..10)
        => LET stored == probe.out.session.analysis
           IN  IF probe.in.data.severity = MissingInt
               THEN stored.severity =
                        calculate_severity_score(stored.emergency_type, <<>>)
               ELSE probe.in.data.severity \in 1..5
                        => stored.severity = probe.in.data.severity

\* C25: in every reachable state each instruction stored in a session's
\* instructions has step_number equal to its 1-based position in the list,
\* whether the list came from the AI answer (with or without step_number
\* keys) or from the built-in defaults.
C25_StepNumberIsPosition ==
    \A i \in DOMAIN sessions :
        \A k \in 1..Len(sessions[i].instructions) :
            sessions[i].instructions[k].step_number = k

\* C26: every submit-frame request eventually completes, with a result or
\* the fallback analysis, even when the external AI capability never
\* answers (each external call being bounded by a timeout), and a hanging
\* external call for one session does not block requests on other sessions.
C26_SubmitFrameCompletes ==
    /\ (probe.inflight # NoFlight) ~> (probe.inflight = NoFlight)
    /\ \A sid \in StoredIds : (sid \in probe.queued) ~> (sid \notin probe.queued)

\* No operation assigns MONITORING: a session never has that status.
NoSessionMonitoring ==
    \A i \in DOMAIN sessions : sessions[i].status # MONITORING

\* C27: status Monitoring takes part in the session lifecycle: operations
\* move a session from Active to Monitoring (and from there back to Active
\* or on to a terminal status), so a session in Monitoring is eventually
\* seen while requests keep being served.
C27_MonitoringTakesPart ==
    <>(\E i \in DOMAIN sessions : sessions[i].status = MONITORING)

\* C28: a session is never left in Analyzing: whenever no analyze_frame call
\* is in flight for a session, its status is not ANALYZING (analyze_frame
\* sets ACTIVE both when it completes and when it fails and re-raises).
C28_NeverLeftAnalyzing ==
    probe.op = "loop" =>
        \A i \in DOMAIN sessions :
            sessions[i].status = ANALYZING => probe.inflight = i

\* a failed analysis has been answered and left its session ACTIVE
C28_Witness ==
    /\ probe.op = "loop"
    /\ probe.inflight = NoFlight
    /\ resp.op = "analyze"
    /\ resp.code = 500
    /\ resp.sid \in DOMAIN sessions
    /\ sessions[resp.sid].status = ACTIVE

\* C29: every session whose status is Resolved, Escalated or Cancelled has
\* ended_at set: advance_step at the last step and end_session stamp
\* ended_at in the step that enters the terminal status.
C29_TerminalHasEndedAt ==
    \A i \in DOMAIN sessions :
        sessions[i].status \in TerminalStatuses => sessions[i].ended_at # NoTime

\* a session just ended by end_session, stamped with the current time
C29_Witness ==
    /\ resp.op = "end" /\ resp.code = 200
    /\ resp.sid \in DOMAIN sessions
    /\ sessions[resp.sid].status \in {ESCALATED, CANCELLED}
    /\ sessions[resp.sid].ended_at = now
    /\ now > 0

\* the service refuses to advance at the last step of a non-empty list
RefusedAtLastStep ==
    /\ Len(probe.in.session.instructions) > 0
    /\ probe.in.session.current_step >= Len(probe.in.session.instructions)

\* flag, instruction and step pointer of the two implementations agree
SameAnswers ==
    /\ probe.out.model.success = probe.out.service.success
    /\ probe.out.model.session.current_step
           = probe.out.service.session.current_step
    /\ probe.out.model_before = probe.out.service_before
    /\ probe.out.model_after = probe.out.service_after
    /\ probe.out.service.success =>
           probe.out.service.instruction = probe.out.model_after

\* C30: the session model's own advance_step and get_current_instruction
\* agree with the service's advance_instruction and get_current_instruction:
\* from equal states they return the same flag and the same instruction and
\* leave the same current_step, and the sessions they leave differ only in
\* status and ended_at, which the service sets when refusing at the last step.
C30_ModelAgreesWithService ==
    probe.op = "advance_pair" =>
        /\ SameAnswers
        /\ [probe.out.model.session EXCEPT
               !.status = probe.out.service.session.status,
               !.ended_at = probe.out.service.session.ended_at]
             = probe.out.service.session
        /\ ~RefusedAtLastStep =>
               probe.out.model.session = probe.out.service.session

\* C30 (amended): as above, the sessions differing only in status, ended_at
\* and updated_at, all three set by the service when refusing at the last
\* step (RESOLVED, the current time, the current time).
C30_ModelAgreesUpToResolution ==
    probe.op = "advance_pair" =>
        /\ SameAnswers
        /\ ~RefusedAtLastStep =>
               probe.out.model.session = probe.out.service.session
        /\ RefusedAtLastStep =>
               /\ probe.out.model.session = probe.in.session
               /\ probe.out.service.session =
                      [probe.in.session EXCEPT !.status = RESOLVED,
                                               !.ended_at = probe.in.t,
                                               !.updated_at = probe.in.t]

\* both implementations refused at the last step of an active session; the
\* service resolved it, the model's method left it as it was
C30_Witness ==
    /\ probe.op = "advance_pair"
    /\ RefusedAtLastStep
    /\ probe.in.session.status = ACTIVE
    /\ probe.in.t > probe.in.session.updated_at
    /\ ~probe.out.model.success /\ ~probe.out.service.success
    /\ probe.out.service.session.status = RESOLVED
    /\ probe.out.model.session.status = ACTIVE
    /\ probe.out.model_after # NoInstruction

====
